---- MODULE Spec2Model ----
(***************************************************************************)
(* Model of valuation/shapley/montecarlo.py: parallel_montecarlo_shapley   *)
(* (the orchestrator), ShapleyWorker.run / ShapleyWorker._run (the worker  *)
(* processes) and get_process_result (the aggregator).                     *)
(*                                                                         *)
(* Conventions.                                                            *)
(*  - The two multiprocessing queues are atomic FIFO sequences.            *)
(*  - A read with a timeout returns the head when the queue holds an item; *)
(*    on an empty queue it either keeps waiting or raises queue.Empty (the *)
(*    model has no clock, so the timeout may expire at any moment).        *)
(*  - Floats are exact rationals <<num, den>> with den > 0 in lowest       *)
(*    terms; <<0, 0>> is NaN.                                              *)
(*  - Python's None task is the record None; an early_stop of None is 0.   *)
(***************************************************************************)
EXTENDS Integers, Sequences, FiniteSets, TLC

\* ------------------------------------------------------------------ bounds
MaxWorkers == 2
MaxPermutations == 3
MaxLoad == 2
MaxFeeds == 2
MaxPoints == 3

\* ------------------------------------------------------- run parameters
min_values == 2
min_samples == 1

VARIABLES
    num_workers,        \* parameter num_workers of this run
    num_samples,        \* len(data), the number of training points
    model,              \* parameter model: prefix length -> score, NaN when fit or score raises
    max_permutations,   \* parameter max_permutations of this run
    tasks_q,            \* mp.Queue of permutations and the None sentinel
    results_q,          \* mp.Queue of (permutation, scores, early_stop)
    converged,          \* mp.Value('i'): written by the orchestrator only
    values,             \* index -> list of running means
    converged_history,  \* list of converged.value snapshots
    iteration,          \* the orchestrator's iteration counter
    opc,                \* the orchestrator's position
    wpc,                \* worker -> position in run()
    wtask,              \* worker -> local variable task
    wrun,               \* worker -> locals of _run: j, scores, early_stop
    wresult,            \* worker -> local variable result
    created,            \* number of permutations sampled so far (their ids)
    evalCount,          \* history: permutation id -> times a worker began to run it
    wlog,               \* history: worker -> results computed / posted / dropped
    postCount,          \* history: permutation id -> times its result was posted
    aggCount,           \* history: permutation id -> times aggregated
    fed,                \* history: index -> the marginals fed to the aggregator
    aggPhase            \* history: results aggregated in RUNNING / DRAINING

vars == <<num_workers, num_samples, model, max_permutations, tasks_q, results_q, converged,
          values, converged_history, iteration, opc, wpc, wtask, wrun,
          wresult,          created, evalCount, wlog, postCount, aggCount, fed, aggPhase>>

\* ---------------------------------------------------------- exact floats
NaN == <<0, 0>>

IsNaN(x) == x[2] = 0

Abs(n) == IF n < 0 THEN -n ELSE n

RECURSIVE GCD(_, _)
GCD(a, b) == IF b = 0 THEN a ELSE GCD(b, a % b)

Frac(n, d) ==
    IF d = 0 THEN NaN
    ELSE LET s == IF d < 0 THEN -1 ELSE 1
             g == GCD(Abs(n), Abs(d))
         IN  <<(s * n) \div g, (s * d) \div g>>

FAdd(x, y) ==
    IF IsNaN(x) \/ IsNaN(y) THEN NaN
    ELSE Frac(x[1] * y[2] + y[1] * x[2], x[2] * y[2])

FSub(x, y) ==
    IF IsNaN(x) \/ IsNaN(y) THEN NaN
    ELSE Frac(x[1] * y[2] - y[1] * x[2], x[2] * y[2])

FMul(x, y) ==
    IF IsNaN(x) \/ IsNaN(y) THEN NaN
    ELSE Frac(x[1] * y[1], x[2] * y[2])

FDiv(x, y) ==
    IF IsNaN(x) \/ IsNaN(y) THEN NaN
    ELSE Frac(x[1] * y[2], x[2] * y[1])

FAbs(x) == IF IsNaN(x) THEN NaN ELSE <<Abs(x[1]), x[2]>>

\* x < y; every comparison with NaN is False
FLess(x, y) == ~IsNaN(x) /\ ~IsNaN(y) /\ x[1] * y[2] < y[1] * x[2]

Int2F(n) == <<n, 1>>

RECURSIVE FSum(_)
FSum(s) == IF s = <<>> THEN Int2F(0) ELSE FAdd(Head(s), FSum(Tail(s)))

\* numpy's mean of a non-empty slice
FMean(s) == FDiv(FSum(s), Int2F(Len(s)))

Max(a, b) == IF a >= b THEN a ELSE b

\* ------------------------------------------------------- data and model
\* data.index
Indices == 1..num_samples

\* np.random.permutation(data.index): every index exactly once
RandomPermutations ==
    {p \in [1..num_samples -> Indices] : \A a, b \in 1..num_samples : p[a] = p[b] => a = b}

\* what model.score may return
ScoreVals == {Int2F(0), Int2F(1)}

\* scores[j] after the try/except around fit and score: a score, or NaN
FitOutcomes == ScoreVals \cup {NaN}

\* the models of a run: the test score is a function of the number of
\* training points the model was fitted on
Models(n) ==
    {[k \in 1..n |-> Int2F(1)],
     [k \in 1..n |-> NaN]}

\* outputs of the bootstrap, and the value tolerance of the run
global_score == Int2F(1)

score_tolerance == Int2F(1)

value_tolerance == Frac(1, 4)

None == [id |-> 0]

\* the local variable task of a worker that holds no permutation
NoTask == [id |-> 0, perm |-> <<>>]

NoResult == [id |-> 0, perm |-> <<>>, scores |-> <<>>, early_stop |-> 0]

MaxIds == 2 * MaxWorkers + MaxPermutations

\* --------------------------------------------------------------- queues
QPut(q, x) == Append(q, x)

QHead(q) == Head(q)

\* mutant: a read that leaves the item in the queue
QRestKeep(q) == q

QRest(q) == Tail(q)

\* mutant: the result is put twice
PostResultTwice(q, res) == QPut(QPut(q, res), res)

\* self.results.put(result), line 75
PostResult(q, res) == QPut(q, res)

\* ------------------------------------------------ ShapleyWorker._run
\* np.zeros(n + 1); position k + 1 of the sequence is scores[k]
ZeroScores(n) == [k \in 1..(n + 1) |-> Int2F(0)]

InitRun(n) == [j |-> 1, scores |-> ZeroScores(n), early_stop |-> 0]

\* scores[max(j - min_samples, 0):j].mean()
mean_last_score(scores, j) ==
    FMean(SubSeq(scores, Max(j - min_samples, 0) + 1, j))

\* mutant: a NaN mean of the last scores counts as a plateau
PlateauOnNaN(scores, j) ==
    \/ IsNaN(mean_last_score(scores, j))
    \/ FLess(FAbs(FSub(global_score, mean_last_score(scores, j))), score_tolerance)

\* abs(global_score - mean_last_score) < score_tolerance
Plateau(scores, j) ==
    FLess(FAbs(FSub(global_score, mean_last_score(scores, j))), score_tolerance)

\* the loop test of _run, line 93: leave the loop on global convergence
BreakOnConverged(conv) == conv >= num_samples

Min(a, b) == IF a <= b THEN a ELSE b

\* permutation[:j + 1], the rows the model is fitted on at position j
FitPrefix(perm, j) == SubSeq(perm, 1, Min(j + 1, Len(perm)))

\* lines 106-113: fit on the prefix and score; NaN when either raises
FitAndScore(mdl, perm, j) == mdl[Len(FitPrefix(perm, j))]

\* mutant: early_stop is overwritten at every plateau
RunBodyLastStop(r, perm, mdl) ==
    IF Plateau(r.scores, r.j)
    THEN [j |-> r.j + 1,
          scores |-> [r.scores EXCEPT ![r.j + 1] = r.scores[r.j]],
          early_stop |-> r.j]
    ELSE [j |-> r.j + 1,
          scores |-> [r.scores EXCEPT ![r.j + 1] = FitAndScore(mdl, perm, r.j)],
          early_stop |-> r.early_stop]

\* one pass of the loop body for position j
RunBody(r, perm, mdl) ==
    IF Plateau(r.scores, r.j)
    THEN [j |-> r.j + 1,
          scores |-> [r.scores EXCEPT ![r.j + 1] = r.scores[r.j]],
          early_stop |-> IF r.early_stop = 0 THEN r.j ELSE r.early_stop]
    ELSE [j |-> r.j + 1,
          scores |-> [r.scores EXCEPT ![r.j + 1] = FitAndScore(mdl, perm, r.j)],
          early_stop |-> r.early_stop]

\* return permutation, scores, early_stop
MakeResult(t, r) ==
    [id |-> t.id, perm |-> t.perm, scores |-> r.scores, early_stop |-> r.early_stop]

\* ------------------------------------------------- get_process_result
\* mutant: the new marginal is added without its weight 1 / it
RunningMeanUnweighted(last, s, p, it) ==
    FAdd(FMul(FDiv(Int2F(it - 1), Int2F(it)), last), FSub(s, p))

\* (it - 1) / it * values[j][-1] + (s - p) / it
RunningMean(last, s, p, it) ==
    FAdd(FMul(FDiv(Int2F(it - 1), Int2F(it)), last), FDiv(FSub(s, p), Int2F(it)))

\* for j, s, p in zip(permutation, scores[1:], scores[:-1]), from position k on
RECURSIVE AggregateFrom(_, _, _, _, _)
AggregateFrom(vals, perm, scores, it, k) ==
    IF k > Len(perm) \/ k + 1 > Len(scores) THEN vals
    ELSE LET idx == perm[k]
             h == vals[idx]
             new == RunningMean(h[Len(h)], scores[k + 1], scores[k], it)
         IN  AggregateFrom([vals EXCEPT ![idx] = Append(h, new)], perm, scores, it, k + 1)

\* mutant: the zip starts at the second position
AggregateSkipFirst(vals, res, it) == AggregateFrom(vals, res.perm, res.scores, it, 2)

Aggregate(vals, res, it) == AggregateFrom(vals, res.perm, res.scores, it, 1)

\* history: the marginal s - p that each position of a result feeds to its index
Marginals(f, res) ==
    [i \in DOMAIN f |->
        LET ks == {k \in 1..Len(res.perm) : res.perm[k] = i /\ k + 1 <= Len(res.scores)}
        IN  IF ks = {} THEN f[i]
            ELSE LET k == CHOOSE k \in ks : TRUE
                 IN  Append(f[i], FSub(res.scores[k + 1], res.scores[k]))]

\* ---------------------------------------------- vanishing_derivatives
\* the successive differences of the trailing min_values means are all
\* below value_tolerance in absolute value
IndexConverged(h) ==
    /\ Len(h) >= min_values
    /\ \A k \in (Len(h) - min_values + 1)..(Len(h) - 1) :
          FLess(FAbs(FSub(h[k + 1], h[k])), value_tolerance)

vanishing_derivatives(vals) == Cardinality({i \in DOMAIN vals : IndexConverged(vals[i])})

\* ------------------------------------------------------------ the run
Workers == 1..num_workers

\* while converged.value < num_samples and iteration <= max_permutations
LoopCond(conv, it) == conv < num_samples /\ it <= max_permutations

NoLog == [computed |-> 0, posted |-> 0, dropped |-> 0]

Init ==
    /\ num_workers \in 1..MaxWorkers
    /\ num_samples \in 1..MaxLoad
    /\ num_workers * num_samples <= MaxLoad
    /\ model \in Models(num_samples)
    /\ max_permutations \in 1..MaxPermutations
    /\ tasks_q = <<>>
    /\ results_q = <<>>
    /\ converged = 0
    /\ values = [i \in Indices |-> <<Int2F(0)>>]
    /\ converged_history = <<>>
    /\ iteration = 1
    /\ opc = "fill"
    /\ wpc = [w \in Workers |-> "idle"]
    /\ wtask = [w \in Workers |-> NoTask]
    /\ wrun = [w \in Workers |-> InitRun(num_samples)]
    /\ wresult = [w \in Workers |-> NoResult]
    /\ created = 0
    /\ evalCount = [i \in 1..MaxIds |-> 0]
    /\ wlog = [w \in Workers |-> NoLog]
    /\ postCount = [i \in 1..MaxIds |-> 0]
    /\ aggCount = [i \in 1..MaxIds |-> 0]
    /\ fed = [i \in Indices |-> <<>>]
    /\ aggPhase = [running |-> 0, draining |-> 0]

params == <<num_workers, num_samples, model, max_permutations>>

orchLocals == <<values, converged_history, iteration, aggCount, fed, aggPhase>>

workerVars == <<wpc, wtask, wrun, wresult, evalCount, wlog, postCount>>

\* tasks_q.put(np.random.permutation(data.index)): the queue item carries the
\* identity of the sample; its random content is drawn by TakeTask
NewTask == [id |-> created + 1]

\* lines 195-196: fill the queue before the workers start
FillQueue ==
    /\ opc = "fill"
    /\ created < 2 * num_workers
    /\ tasks_q' = QPut(tasks_q, NewTask)
    /\ created' = created + 1
    /\ UNCHANGED <<params, results_q, converged, orchLocals, opc, workerVars>>

\* lines 198-201 and the first test of the loop at line 209
StartWorkers ==
    /\ opc = "fill"
    /\ created = 2 * num_workers
    /\ wpc' = [w \in Workers |-> "start"]
    /\ opc' = IF LoopCond(converged, iteration) THEN "result" ELSE "drain"
    /\ UNCHANGED <<params, tasks_q, results_q, converged, orchLocals, wtask, wrun,
                   wresult, evalCount, wlog, postCount, created>>

\* line 210: get_process_result(iteration), an untimed read of results_q
GetResult ==
    /\ opc = "result"
    /\ results_q # <<>>
    /\ LET res == QHead(results_q)
       IN  /\ values' = Aggregate(values, res, iteration)
           /\ fed' = Marginals(fed, res)
           /\ aggCount' = [aggCount EXCEPT ![res.id] = @ + 1]
    /\ results_q' = QRest(results_q)
    /\ aggPhase' = [aggPhase EXCEPT !.running = @ + 1]
    /\ opc' = "put"
    /\ UNCHANGED <<params, tasks_q, converged, converged_history, iteration,
                   workerVars, created>>

\* line 211
PutTask ==
    /\ opc = "put"
    /\ tasks_q' = QPut(tasks_q, NewTask)
    /\ created' = created + 1
    /\ opc' = "check"
    /\ UNCHANGED <<params, results_q, converged, orchLocals, workerVars>>

\* mutant: the detector runs at every iteration
NewConvergedAlways(it, vals, conv) == vanishing_derivatives(vals)

\* mutant: the iteration number is written to converged.value
NewConvergedIteration(it, vals, conv) ==
    IF it > min_values THEN it ELSE conv

\* lines 212-217
NewConverged(it, vals, conv) ==
    IF it > min_values THEN vanishing_derivatives(vals) ELSE conv

\* mutant: the history grows at every iteration
NewHistoryAlways(it, hist, conv) == Append(hist, conv)

NewHistory(it, hist, conv) ==
    IF it > min_values THEN Append(hist, conv) ELSE hist

\* lines 212-225, and the next test of the loop at line 209
CheckConverged ==
    /\ opc = "check"
    /\ converged' = NewConverged(iteration, values, converged)
    /\ converged_history' = NewHistory(iteration, converged_history, converged')
    /\ iteration' = iteration + 1
    /\ opc' = IF LoopCond(converged', iteration') THEN "result" ELSE "drain"
    /\ UNCHANGED <<params, tasks_q, results_q, values, aggCount, fed, aggPhase,
                   workerVars, created>>

\* lines 228-230: tasks_q.get_nowait() returned a pending task
DrainTask ==
    /\ opc = "drain"
    /\ tasks_q # <<>>
    /\ tasks_q' = QRest(tasks_q)
    /\ UNCHANGED <<params, results_q, converged, orchLocals, opc, workerVars, created>>

\* mutant: the orchestrator stops draining while tasks are pending
DrainLeaveEarly ==
    /\ opc = "drain"
    /\ opc' = "sentinel"
    /\ UNCHANGED <<params, tasks_q, results_q, converged, orchLocals, workerVars, created>>

\* lines 231-232: tasks_q.get_nowait() raised queue.Empty
DrainEmpty ==
    /\ opc = "drain"
    /\ tasks_q = <<>>
    /\ opc' = "sentinel"
    /\ UNCHANGED <<params, tasks_q, results_q, converged, orchLocals, workerVars, created>>

\* line 235: tasks_q.put(None)
PutSentinel ==
    /\ opc = "sentinel"
    /\ tasks_q' = QPut(tasks_q, None)
    /\ opc' = "gather"
    /\ UNCHANGED <<params, results_q, converged, orchLocals, workerVars, created>>

\* mutant: the gathering loop does not advance the iteration counter
GatherResultSameIteration ==
    /\ opc = "gather"
    /\ results_q # <<>>
    /\ LET res == QHead(results_q)
       IN  /\ values' = Aggregate(values, res, iteration)
           /\ fed' = Marginals(fed, res)
           /\ aggCount' = [aggCount EXCEPT ![res.id] = @ + 1]
    /\ results_q' = QRest(results_q)
    /\ aggPhase' = [aggPhase EXCEPT !.draining = @ + 1]
    /\ UNCHANGED <<params, tasks_q, converged, converged_history, iteration, opc,
                   workerVars, created>>

\* lines 244-246: get_process_result(iteration, timeout=1.0) got a result
GatherResult ==
    /\ opc = "gather"
    /\ results_q # <<>>
    /\ LET res == QHead(results_q)
       IN  /\ values' = Aggregate(values, res, iteration)
           /\ fed' = Marginals(fed, res)
           /\ aggCount' = [aggCount EXCEPT ![res.id] = @ + 1]
    /\ results_q' = QRest(results_q)
    /\ aggPhase' = [aggPhase EXCEPT !.draining = @ + 1]
    /\ iteration' = iteration + 1
    /\ UNCHANGED <<params, tasks_q, converged, converged_history, opc,
                   workerVars, created>>

\* lines 247-248: the timed read raised queue.Empty
GatherTimeout ==
    /\ opc = "gather"
    /\ results_q = <<>>
    /\ opc' = "assert_results"
    /\ UNCHANGED <<params, tasks_q, results_q, converged, orchLocals, workerVars, created>>

\* line 252: assert results_q.empty()
AssertResults ==
    /\ opc = "assert_results"
    /\ opc' = IF results_q = <<>> THEN "assert_tasks" ELSE "failed"
    /\ UNCHANGED <<params, tasks_q, results_q, converged, orchLocals, workerVars, created>>

\* mutant: the shutdown check looks at the head without removing it
AssertTasksPeek ==
    /\ opc = "assert_tasks"
    /\ tasks_q # <<>>
    /\ opc' = IF QHead(tasks_q) = None THEN "join" ELSE "failed"
    /\ UNCHANGED <<params, tasks_q, results_q, converged, orchLocals, workerVars, created>>

\* line 256: assert tasks_q.get(timeout=0.1) is None, an item was there
AssertTasks ==
    /\ opc = "assert_tasks"
    /\ tasks_q # <<>>
    /\ tasks_q' = QRest(tasks_q)
    /\ opc' = IF QHead(tasks_q) = None THEN "join" ELSE "failed"
    /\ UNCHANGED <<params, results_q, converged, orchLocals, workerVars, created>>

\* line 256: tasks_q.get(timeout=0.1) raised queue.Empty, which nothing catches
AssertTasksTimeout ==
    /\ opc = "assert_tasks"
    /\ tasks_q = <<>>
    /\ opc' = "failed"
    /\ UNCHANGED <<params, tasks_q, results_q, converged, orchLocals, workerVars, created>>

Terminated(w) == wpc[w] \in {"done", "crashed"}

\* lines 259-263: join every worker, then return
JoinWorkers ==
    /\ opc = "join"
    /\ \A w \in Workers : Terminated(w)
    /\ opc' = "stopped"
    /\ UNCHANGED <<params, tasks_q, results_q, converged, orchLocals, workerVars, created>>

\* ------------------------------------------------- ShapleyWorker.run
\* where run() goes with the task it has just read (line 63)
AfterRead(t) == IF t = None THEN "repost" ELSE "run"

\* the permutations a dequeued item can turn out to be: np.random.permutation
\* is an independent draw that nothing reads before the worker that dequeues
\* it, so the draw is made at the dequeue
TakeTask(t) ==
    IF t = None THEN {NoTask}
    ELSE {[id |-> t.id, perm |-> p] : p \in RandomPermutations}

BeginRun(w, t) ==
    /\ wrun' = [wrun EXCEPT ![w] = InitRun(Len(t.perm))]
    /\ evalCount' = IF t = NoTask THEN evalCount ELSE [evalCount EXCEPT ![t.id] = @ + 1]

\* line 61: tasks.get(timeout=1.0) returned a task
WorkerStart(w) ==
    /\ wpc[w] = "start"
    /\ tasks_q # <<>>
    /\ tasks_q' = QRest(tasks_q)
    /\ \E t \in TakeTask(QHead(tasks_q)) :
          /\ wtask' = [wtask EXCEPT ![w] = t]
          /\ BeginRun(w, t)
    /\ wpc' = [wpc EXCEPT ![w] = AfterRead(QHead(tasks_q))]
    /\ UNCHANGED <<params, results_q, converged, orchLocals, opc, wresult, wlog, postCount, created>>

\* line 61: tasks.get(timeout=1.0) raised queue.Empty, which ends the process
WorkerStartTimeout(w) ==
    /\ wpc[w] = "start"
    /\ tasks_q = <<>>
    /\ wpc' = [wpc EXCEPT ![w] = "crashed"]
    /\ UNCHANGED <<params, tasks_q, results_q, converged, orchLocals, opc, wtask, wrun,
                   wresult, evalCount, wlog, postCount, created>>

\* mutant: a worker that read None returns without putting it back
WorkerKeepSentinel(w) ==
    /\ wpc[w] = "repost"
    /\ wpc' = [wpc EXCEPT ![w] = "done"]
    /\ UNCHANGED <<params, tasks_q, results_q, converged, orchLocals, opc, wtask, wrun,
                   wresult, evalCount, wlog, postCount, created>>

\* lines 63-65: the task is None: put it back and return
WorkerRepost(w) ==
    /\ wpc[w] = "repost"
    /\ tasks_q' = QPut(tasks_q, None)
    /\ wpc' = [wpc EXCEPT ![w] = "done"]
    /\ UNCHANGED <<params, results_q, converged, orchLocals, opc, wtask, wrun,
                   wresult, evalCount, wlog, postCount, created>>

\* _run returns: result = (permutation, scores, early_stop), line 67
ReturnResult(w, r) ==
    /\ wresult' = [wresult EXCEPT ![w] = MakeResult(wtask[w], r)]
    /\ wlog' = [wlog EXCEPT ![w].computed = @ + 1]
    /\ wpc' = [wpc EXCEPT ![w] = "peek"]

\* lines 92-114: one position of the permutation, reading converged.value
WorkerRunStep(w) ==
    /\ wpc[w] = "run"
    /\ IF BreakOnConverged(converged)
       THEN /\ ReturnResult(w, wrun[w])
            /\ UNCHANGED wrun
       ELSE LET r == RunBody(wrun[w], wtask[w].perm, model)
            IN  /\ wrun' = [wrun EXCEPT ![w] = r]
                /\ IF r.j > Len(wtask[w].perm)
                   THEN ReturnResult(w, r)
                   ELSE UNCHANGED <<wresult, wlog, wpc>>
    /\ UNCHANGED <<params, tasks_q, results_q, converged, orchLocals, opc, wtask,
                   evalCount, postCount, created>>

\* mutant: on queue.Empty the worker goes back to wait for a task
WorkerPeekEmptyRetry(w) ==
    /\ wpc[w] = "peek"
    /\ tasks_q = <<>>
    /\ wlog' = [wlog EXCEPT ![w].dropped = @ + 1]
    /\ wpc' = [wpc EXCEPT ![w] = "start"]
    /\ UNCHANGED <<params, tasks_q, results_q, converged, orchLocals, opc, wtask, wrun,
                   wresult, evalCount, postCount, created>>

\* mutant: the read after an evaluation blocks while the task queue is empty
WorkerPeekBlocks(w) ==
    /\ wpc[w] = "peek"
    /\ tasks_q = <<>>
    /\ UNCHANGED vars

\* lines 73, 76-77: tasks.get_nowait() raised queue.Empty: return, no post
WorkerPeekEmpty(w) ==
    /\ wpc[w] = "peek"
    /\ tasks_q = <<>>
    /\ wlog' = [wlog EXCEPT ![w].dropped = @ + 1]
    /\ wpc' = [wpc EXCEPT ![w] = "done"]
    /\ UNCHANGED <<params, tasks_q, results_q, converged, orchLocals, opc, wtask, wrun,
                   wresult, evalCount, postCount, created>>

\* lines 73-74: tasks.get_nowait() returned the next task or None
WorkerPeek(w) ==
    /\ wpc[w] = "peek"
    /\ tasks_q # <<>>
    /\ tasks_q' = QRest(tasks_q)
    /\ \E t \in TakeTask(QHead(tasks_q)) : wtask' = [wtask EXCEPT ![w] = t]
    /\ IF QHead(tasks_q) = None
       THEN /\ wlog' = [wlog EXCEPT ![w].dropped = @ + 1]
            /\ wpc' = [wpc EXCEPT ![w] = "repost"]
       ELSE /\ wpc' = [wpc EXCEPT ![w] = "post"]
            /\ UNCHANGED wlog
    /\ UNCHANGED <<params, results_q, converged, orchLocals, opc, wrun, wresult,
                   evalCount, postCount, created>>

\* line 75: self.results.put(result), then _run on the task in hand
WorkerPost(w) ==
    /\ wpc[w] = "post"
    /\ results_q' = PostResult(results_q, wresult[w])
    /\ wlog' = [wlog EXCEPT ![w].posted = @ + 1]
    /\ postCount' = [postCount EXCEPT ![wresult[w].id] = @ + 1]
    /\ BeginRun(w, wtask[w])
    /\ wpc' = [wpc EXCEPT ![w] = "run"]
    /\ UNCHANGED <<params, tasks_q, converged, orchLocals, opc, wtask, wresult, created>>

Next ==
    \/ FillQueue
    \/ StartWorkers
    \/ GetResult
    \/ PutTask
    \/ CheckConverged
    \/ DrainTask
    \/ DrainEmpty
    \/ PutSentinel
    \/ GatherResult
    \/ GatherTimeout
    \/ AssertResults
    \/ AssertTasks
    \/ AssertTasksTimeout
    \/ JoinWorkers
    \/ \E w \in Workers : WorkerStart(w)
    \/ \E w \in Workers : WorkerStartTimeout(w)
    \/ \E w \in Workers : WorkerRepost(w)
    \/ \E w \in Workers : WorkerRunStep(w)
    \/ \E w \in Workers : WorkerPeekEmpty(w)
    \/ \E w \in Workers : WorkerPeek(w)
    \/ \E w \in Workers : WorkerPost(w)

Spec == Init /\ [][Next]_vars

\* the steps of worker process w on the queues: every statement of run()
\* but the call of _run
WorkerQueueStep(w) ==
    /\ w \in Workers
    /\ \/ WorkerStart(w)
       \/ WorkerStartTimeout(w)
       \/ WorkerRepost(w)
       \/ WorkerPeekEmpty(w)
       \/ WorkerPeek(w)
       \/ WorkerPost(w)

\* every worker process keeps being scheduled; nothing is assumed of the
\* orchestrator, nor of the time fit and score take
FairSpec == Spec /\ \A w \in 1..MaxWorkers : WF_vars(WorkerQueueStep(w))


\* ------------------------------------------- the aggregator on its own
\* the score trajectories of a permutation of n points: scores[0] = 0 and
\* every later entry a score, a zero left by np.zeros, or NaN
Trajectories(n) ==
    {sc \in [1..(n + 1) -> FitOutcomes \cup {Int2F(0)}] : sc[1] = Int2F(0)}

AggInit ==
    /\ num_workers = 1
    /\ num_samples = MaxLoad
    /\ model = [k \in 1..num_samples |-> Int2F(1)]
    /\ max_permutations = MaxFeeds
    /\ tasks_q = <<>>
    /\ results_q = <<>>
    /\ converged = 0
    /\ values = [i \in Indices |-> <<Int2F(0)>>]
    /\ converged_history = <<>>
    /\ iteration = 1
    /\ opc = "aggregate"
    /\ wpc = [w \in Workers |-> "idle"]
    /\ wtask = [w \in Workers |-> NoTask]
    /\ wrun = [w \in Workers |-> InitRun(num_samples)]
    /\ wresult = [w \in Workers |-> NoResult]
    /\ created = 0
    /\ evalCount = [i \in 1..MaxIds |-> 0]
    /\ wlog = [w \in Workers |-> NoLog]
    /\ postCount = [i \in 1..MaxIds |-> 0]
    /\ aggCount = [i \in 1..MaxIds |-> 0]
    /\ fed = [i \in Indices |-> <<>>]
    /\ aggPhase = [running |-> 0, draining |-> 0]

\* get_process_result(iteration) on any result, then iteration += 1
AggFeed ==
    /\ opc = "aggregate"
    /\ iteration <= max_permutations
    /\ \E p \in RandomPermutations, sc \in Trajectories(num_samples) :
          LET res == [id |-> iteration, perm |-> p, scores |-> sc, early_stop |-> 0]
          IN  /\ values' = Aggregate(values, res, iteration)
              /\ fed' = Marginals(fed, res)
    /\ iteration' = iteration + 1
    /\ aggPhase' = [aggPhase EXCEPT !.running = @ + 1]
    /\ UNCHANGED <<params, tasks_q, results_q, converged, converged_history, aggCount,
                   opc, workerVars, created>>

AggSpec == AggInit /\ [][AggFeed]_vars

\* --------------------------------------------- the evaluator on its own
\* the models of an evaluation: fit and score may succeed with either score or
\* raise, independently for every size of the training prefix
EvalModels(n) == [1..n -> FitOutcomes]

\* a worker at the entry of _run(permutation), for any model, any permutation
\* and any value of converged
EvalInit ==
    /\ num_workers = 1
    /\ num_samples \in 1..MaxPoints
    /\ model \in EvalModels(num_samples)
    /\ max_permutations = 1
    /\ tasks_q = <<>>
    /\ results_q = <<>>
    /\ converged \in 0..num_samples
    /\ values = [i \in Indices |-> <<Int2F(0)>>]
    /\ converged_history = <<>>
    /\ iteration = 1
    /\ opc = "evaluate"
    /\ wpc = [w \in Workers |-> "run"]
    /\ \E p \in RandomPermutations : wtask = [w \in Workers |-> [id |-> 1, perm |-> p]]
    /\ wrun = [w \in Workers |-> InitRun(num_samples)]
    /\ wresult = [w \in Workers |-> NoResult]
    /\ created = 1
    /\ evalCount = [i \in 1..MaxIds |-> IF i = 1 THEN 1 ELSE 0]
    /\ wlog = [w \in Workers |-> NoLog]
    /\ postCount = [i \in 1..MaxIds |-> 0]
    /\ aggCount = [i \in 1..MaxIds |-> 0]
    /\ fed = [i \in Indices |-> <<>>]
    /\ aggPhase = [running |-> 0, draining |-> 0]

\* line 213 seen from the worker: the orchestrator writes converged.value
\* between two positions of the permutation
EvalWriteConverged ==
    /\ opc = "evaluate"
    /\ \E w \in Workers : wpc[w] = "run"
    /\ \E c \in 0..num_samples : converged' = c
    /\ converged' # converged
    /\ UNCHANGED <<params, tasks_q, results_q, orchLocals, opc, workerVars, created>>

EvalNext ==
    \/ \E w \in Workers : WorkerRunStep(w)
    \/ EvalWriteConverged

EvalSpec == EvalInit /\ [][EvalNext]_vars

\* ------------------------------------------ serial_montecarlo_shapley
\* scores[max(j - min_samples, 0):j].mean() if j > 0 else 0.0, with j from 0
SerialLastScores(scores, j) ==
    IF j > 0 THEN FMean(SubSeq(scores, Max(j - min_samples, 0) + 1, j)) ELSE Int2F(0)

\* lines 341-363: the positions j, j + 1, ... of one permutation (enumerate
\* starts at 0); the model is fitted on permutation[:j + 1] and the value of
\* the index is moved towards scores[j + 1] by 1 / (j + 1)
RECURSIVE SerialFrom(_, _, _, _, _)
SerialFrom(vals, scores, perm, mdl, j) ==
    IF j >= Len(perm) THEN vals
    ELSE LET last == SerialLastScores(scores, j)
             sc == IF FLess(FAbs(FSub(global_score, last)), score_tolerance)
                   THEN scores[j + 1]
                   ELSE mdl[Len(SubSeq(perm, 1, j + 1))]
             idx == perm[j + 1]
             h == vals[idx]
             new == FAdd(h[Len(h)], FDiv(FSub(sc, h[Len(h)]), Int2F(j + 1)))
         IN  SerialFrom([vals EXCEPT ![idx] = Append(h, new)],
                        [scores EXCEPT ![j + 2] = sc], perm, mdl, j + 1)

\* one pass of the while loop of lines 334-374 over one permutation
SerialIteration(vals, perm, mdl) ==
    SerialFrom(vals, ZeroScores(Len(perm)), perm, mdl, 0)

\* ---------------------------------------------------------- the claims
RECURSIVE SumOver(_, _)
SumOver(f, S) ==
    IF S = {} THEN 0
    ELSE LET x == CHOOSE x \in S : TRUE IN f[x] + SumOver(f, S \ {x})

TotalComputed == SumOver([w \in Workers |-> wlog[w].computed], Workers)

TotalDropped == SumOver([w \in Workers |-> wlog[w].dropped], Workers)

TotalStarted == SumOver(evalCount, DOMAIN evalCount)

TotalAggregated == aggPhase.running + aggPhase.draining

\* a worker between the return of _run and the post or the drop of its result
Holding(w) == wpc[w] \in {"peek", "post"}

TotalHeld == Cardinality({w \in Workers : Holding(w)})

Last(h) == h[Len(h)]

\* C1 as stated: when the run has returned, the results fed to the aggregator
\* are as many as the evaluations the workers completed
C1_AggregatedEqualsCompleted ==
    opc = "stopped" => TotalAggregated = TotalComputed

\* C1 amended: every completed evaluation is aggregated, waits in the result
\* queue, is still held by its worker or was dropped by it; none is aggregated
\* twice, and none is aggregated that was not posted
C1_Conservation ==
    /\ TotalComputed = TotalAggregated + Len(results_q) + TotalHeld + TotalDropped
    /\ \A i \in DOMAIN aggCount : aggCount[i] <= 1 /\ aggCount[i] <= postCount[i]
    /\ SumOver(aggCount, DOMAIN aggCount) = TotalAggregated

C1_Witness ==
    /\ opc = "stopped"
    /\ num_workers = 2
    /\ TotalDropped >= 1
    /\ aggPhase.running >= 1
    /\ aggPhase.draining >= 1

\* C2: the orchestrator never waits on its untimed read of the result queue
\* with no result queued and every worker gone
C2_NeverBlockedForever ==
    ~(opc = "result" /\ results_q = <<>> /\ \A w \in Workers : Terminated(w))

C4_AtMostMaxPermutations == TotalStarted <= max_permutations

\* C5: every index's history holds the seed and one entry per result consumed
C5_OneEntryPerResult ==
    \A i \in Indices : Len(values[i]) = 1 + TotalAggregated

C5_Witness ==
    /\ num_samples = 2
    /\ aggPhase.running >= 2
    /\ aggPhase.draining >= 1

\* C6: a worker drops at most one result, after which it evaluates nothing
\* more; every other result it computed was posted once or is still in hand
C6_DropsOnlyLast ==
    /\ \A w \in Workers :
          /\ wlog[w].dropped <= 1
          /\ wlog[w].dropped = 1 => wpc[w] \in {"repost", "done"}
          /\ wlog[w].computed =
                wlog[w].posted + wlog[w].dropped + (IF Holding(w) THEN 1 ELSE 0)
    /\ \A i \in DOMAIN postCount : postCount[i] <= 1

C6_Witness ==
    \E w \in Workers :
        /\ wpc[w] = "done"
        /\ wlog[w].dropped = 1
        /\ wlog[w].posted >= 2

\* C7: no permutation placed on the task queue is evaluated more than once
C7_EvaluatedAtMostOnce == \A i \in DOMAIN evalCount : evalCount[i] <= 1

C7_Witness ==
    /\ num_workers = 2
    /\ \A w \in Workers : wlog[w].computed >= 2
    /\ opc = "gather"
    /\ TotalStarted < created

\* C8: the convergence signal is within [0, num_samples]
C8_ConvergedInRange == converged \in 0..num_samples

C8_Witness == num_samples = 2 /\ converged = 2 /\ converged_history = <<2>>

\* C9 as stated: the returned convergence history has one entry per result
\* aggregated after the first min_values, RUNNING and DRAINING alike
C9_HistoryCountsAllResults ==
    opc = "stopped" =>
        Len(converged_history) = Max(0, TotalAggregated - min_values)

\* C9 amended: outside the body of the main loop the convergence history has
\* one entry per result aggregated in RUNNING after the first min_values; the
\* results aggregated in DRAINING add none
C9_HistoryCountsRunning ==
    opc \notin {"put", "check"} =>
        Len(converged_history) = Max(0, aggPhase.running - min_values)

C9_Witness ==
    /\ opc = "stopped"
    /\ aggPhase.draining >= 1
    /\ Len(converged_history) >= 1

NotNaN(x) == ~IsNaN(x)

\* C10: once an index has been fed a marginal its latest mean is a number,
\* the mean of the marginals fed for it that are not NaN
C10_NaNExcluded ==
    \A i \in Indices :
        LET valid == SelectSeq(fed[i], NotNaN)
        IN  /\ fed[i] # <<>> => ~IsNaN(Last(values[i]))
            /\ valid # <<>> => Last(values[i]) = FMean(valid)

\* the permutation a worker is evaluating and the locals of its _run
Perm(w) == wtask[w].perm

\* entry j of the trajectory of worker w, scores[j] in the source
Score(w, j) == wrun[w].scores[j + 1]

\* the positions _run has gone through so far
Processed(w) == 1..(wrun[w].j - 1)

\* position j was processed by fitting the model, not by copying the last score
Fitted(w, j) == j \in Processed(w) /\ ~Plateau(wrun[w].scores, j)

\* fit or score raised at position j
FitFailed(w, j) == Fitted(w, j) /\ IsNaN(FitAndScore(model, Perm(w), j))

\* _run has returned without having seen global convergence
ReturnedUnbroken(w) == wpc[w] = "peek" /\ converged < num_samples

\* C11: the NaN entries of a trajectory are exactly the positions where fit or
\* score raised; the trajectory always has len(permutation) + 1 entries; an
\* evaluation that did not see global convergence goes through every position
\* and hands its trajectory over as the worker's result
C11_FailureIsOneNaN ==
    \A w \in Workers :
        /\ Len(wrun[w].scores) = Len(Perm(w)) + 1
        /\ \A j \in 1..Len(Perm(w)) : IsNaN(Score(w, j)) <=> FitFailed(w, j)
        /\ ReturnedUnbroken(w) =>
              /\ wrun[w].j = Len(Perm(w)) + 1
              /\ wresult[w].scores = wrun[w].scores
              /\ wlog[w].computed = 1

C11_Witness ==
    \E w \in Workers :
        /\ ReturnedUnbroken(w)
        /\ Len(Perm(w)) = 3
        /\ FitFailed(w, 1)
        /\ Fitted(w, 2) /\ ~IsNaN(Score(w, 2))
        /\ Fitted(w, 3)

\* the start-up read of worker w timed out (line 61 raised queue.Empty)
StartupTimedOut(w) == wpc[w] = "crashed"

\* C12: when the start-up read of a worker has timed out, the run does not
\* return normally as if the worker had been alive
C12_StartupTimeoutIsFatal ==
    (\E w \in Workers : StartupTimedOut(w)) => opc # "stopped"

\* the orchestrator has left the main loop
LeftRunning ==
    opc \in {"drain", "sentinel", "gather", "assert_results", "assert_tasks",
             "join", "stopped", "failed"}

\* the value updates index i has received: its history without the seed
Updates(i) == Len(values[i]) - 1

\* C13: the convergence signal is 0 until more than min_values results have
\* been aggregated, and with max_permutations >= min_values the main loop is
\* not left before every index has received min_values value updates
C13_MinValuesBeforeConvergence ==
    /\ converged > 0 => aggPhase.running > min_values
    /\ (LeftRunning /\ max_permutations >= min_values) =>
          /\ aggPhase.running >= min_values
          /\ \A i \in Indices : Updates(i) >= min_values

C13_Witness ==
    /\ opc = "stopped"
    /\ converged >= num_samples
    /\ aggPhase.running = min_values + 1
    /\ \A i \in Indices : Updates(i) >= min_values

\* the update of line 206 applied to the marginals ms in their order, starting
\* from the mean last at iteration it
RECURSIVE FeedAll(_, _, _)
FeedAll(last, ms, it) ==
    IF ms = <<>> THEN last
    ELSE FeedAll(RunningMean(last, Head(ms), Int2F(0), it), Tail(ms), it + 1)

\* the same marginals in every order of arrival
Reorderings(ms) ==
    LET D == 1..Len(ms)
    IN  {[k \in D |-> ms[sigma[k]]] :
            sigma \in {f \in [D -> D] : \A a, b \in D : f[a] = f[b] => a = b}}

\* C14: the latest mean of an index is what the update rule gives for the
\* marginals fed for that index taken in any order
C14_OrderInvariant ==
    \A i \in Indices :
        \A ms \in Reorderings(fed[i]) :
            FeedAll(Int2F(0), ms, 1) = Last(values[i])

C14_Witness ==
    \E i \in Indices :
        /\ Len(fed[i]) = MaxFeeds
        /\ fed[i][1] # fed[i][2]
        /\ \A k \in 1..Len(fed[i]) : ~IsNaN(fed[i][k])
        /\ Last(values[i]) = FMean(fed[i])

\* fit and score raise for no prefix (serial_montecarlo_shapley has no except)
NeverFails == \A k \in DOMAIN model : ~IsNaN(model[k])

\* C15: for a model that never fails, the estimates the parallel engine holds
\* after aggregating the evaluation of a permutation equal those of
\* serial_montecarlo_shapley after its pass over the same permutation
C15_ParallelEqualsSerial ==
    \A w \in Workers :
        (ReturnedUnbroken(w) /\ NeverFails) =>
            \A i \in Indices :
                Last(Aggregate(values, wresult[w], iteration)[i])
                    = Last(SerialIteration(values, Perm(w), model)[i])

\* C16: wherever _run fits the model at position j, it fits it on the first j
\* elements of the permutation, and entry j of the trajectory is the score of
\* the model trained on a prefix of length j
C16_FitsOnFirstJ ==
    \A w \in Workers :
        \A j \in 1..Len(Perm(w)) :
            Fitted(w, j) =>
                /\ FitPrefix(Perm(w), j) = SubSeq(Perm(w), 1, j)
                /\ Score(w, j) = model[j]

\* _run has left its loop through the break of line 94, before position
\* wrun[w].j, and the worker still holds the trajectory
Broken(w) == Holding(w) /\ wrun[w].j <= Len(Perm(w))

\* C17: when _run stops on global convergence before position j, every entry
\* of the trajectory from j on equals entry j - 1
C17_FlatAfterBreak ==
    \A w \in Workers :
        Broken(w) =>
            \A k \in wrun[w].j..Len(wresult[w].perm) :
                wresult[w].scores[k + 1] = wresult[w].scores[wrun[w].j]

\* the orchestrator has executed tasks_q.put(None), line 235
SentinelPlaced ==
    opc \in {"gather", "assert_results", "assert_tasks", "join", "stopped", "failed"}

\* C18: once the orchestrator has placed the sentinel, no step adds a result
\* to the result queue
C18_NoPostAfterSentinel ==
    [][SentinelPlaced => Len(results_q') <= Len(results_q)]_vars

\* the orchestrator is in its main loop, lines 209-225
InRunning == opc \in {"result", "put", "check"}

\* C19: while the orchestrator is in its main loop no worker has terminated
C19_NoWorkerExitWhileRunning ==
    InRunning => \A w \in Workers : ~Terminated(w)

\* the sentinels in the task queue or in the hands of a worker that is about
\* to put it back (between lines 63 and 64)
SentinelCount ==
    Cardinality({k \in 1..Len(tasks_q) : tasks_q[k] = None})
        + Cardinality({w \in Workers : wpc[w] = "repost"})

\* the orchestrator has put the sentinel and not yet read it back at line 256
SentinelOut == opc \in {"gather", "assert_results", "assert_tasks"}

C20_State ==
    /\ ~SentinelPlaced => SentinelCount = 0
    /\ opc = "sentinel" => tasks_q = <<>>
    /\ SentinelOut => SentinelCount = 1
    /\ SentinelPlaced =>
          /\ SentinelCount <= 1
          /\ \A k \in 1..Len(tasks_q) : tasks_q[k] = None

C20_Step ==
    SentinelPlaced =>
        /\ created' = created
        /\ \A w \in Workers : wtask'[w] # wtask[w] => wtask'[w] = NoTask

\* C20: there is no sentinel before the orchestrator puts it, which it does
\* with the task queue empty, and exactly one while the orchestrator gathers;
\* from then on the task queue holds no permutation, no permutation is
\* sampled and no worker takes a permutation off the queue
C20_OneSentinelNoNewWork == []C20_State /\ [][C20_Step]_vars

C20_Witness ==
    /\ num_workers = 2
    /\ opc = "gather"
    /\ tasks_q = <<None>>
    /\ \E w \in Workers : wpc[w] = "done" /\ wlog[w].dropped = 1
    /\ \E w \in Workers : wpc[w] = "run"

\* the divisor `it` the next call of get_process_result will use
NextDivisor == iteration

\* the orchestrator is between the update of line 210 and iteration += 1
InLoopBody == opc \in {"put", "check"}

\* C21: the divisor of the next update is one more than the updates every
\* index has received, in the main loop and in the gathering loop, and the
\* latest entry of an index is the arithmetic mean of the marginals fed for it
C21_DivisorIsUpdateCount ==
    /\ NextDivisor = TotalAggregated + (IF InLoopBody THEN 0 ELSE 1)
    /\ \A i \in Indices :
          /\ Len(fed[i]) = TotalAggregated
          /\ Updates(i) = TotalAggregated
          /\ fed[i] # <<>> => Last(values[i]) = FMean(fed[i])

C21_Witness ==
    /\ aggPhase.running >= 2
    /\ aggPhase.draining >= 1
    /\ \E i \in Indices :
          /\ fed[i][1] # fed[i][2]
          /\ Last(values[i]) \notin {Int2F(0), Int2F(1), NaN}

\* the processed positions at which the plateau rule of line 101 held
PlateauPositions(w) == {j \in Processed(w) : Plateau(wrun[w].scores, j)}

\* C22: early_stop is None (0 here) exactly when the plateau rule held at no
\* processed position; otherwise it is the smallest such position, within
\* 1..len(permutation), and it is what the result carries
C22_EarlyStopIsFirstPlateau ==
    \A w \in Workers :
        LET es == wrun[w].early_stop
            P == PlateauPositions(w)
        IN  /\ es = 0 <=> P = {}
            /\ P # {} =>
                  /\ es \in P
                  /\ \A j \in P : es <= j
                  /\ 0 < es /\ es <= Len(Perm(w))
            /\ Holding(w) => wresult[w].early_stop = es

C22_Witness ==
    \E w \in Workers :
        /\ Holding(w)
        /\ wresult[w].early_stop = 2
        /\ PlateauPositions(w) = {2, 3}

\* the last task worker w read was None, at line 61 or at line 73
ReadSentinel(w) == wtask[w] = NoTask /\ wpc[w] \in {"repost", "done"}

\* worker w holds the sentinel: it has read None and not yet put it back
HoldsSentinel(w) == wpc[w] = "repost"

C23_State ==
    /\ Cardinality({k \in 1..Len(tasks_q) : tasks_q[k] = None}) <= 1
    /\ Cardinality({w \in Workers : HoldsSentinel(w)}) <= 1
    /\ SentinelOut =>
          (tasks_q = <<None>>) # (\E w \in Workers : HoldsSentinel(w))
    /\ \A w \in Workers : ReadSentinel(w) => SentinelPlaced

C23_Step ==
    \A w \in Workers :
        /\ (HoldsSentinel(w) /\ wpc'[w] # wpc[w]) =>
              wpc'[w] = "done" /\ tasks_q' = Append(tasks_q, None)
        /\ (wpc'[w] = "done" /\ wpc[w] # "done" /\ wtask[w] = NoTask) =>
              HoldsSentinel(w)

\* C23: between the orchestrator's put of the sentinel and its shutdown read
\* exactly one sentinel exists, alone in the task queue or in the hands of one
\* worker; the queue never holds two; a worker that read the sentinel
\* terminates only by the step that puts it back
C23_SentinelConserved == []C23_State /\ [][C23_Step]_vars

C23_Witness ==
    /\ num_workers = 2
    /\ SentinelOut
    /\ tasks_q = <<>>
    /\ \E w \in Workers : HoldsSentinel(w) /\ wlog[w].dropped = 1
    /\ \E w \in Workers : wpc[w] = "done" /\ ReadSentinel(w) /\ wlog[w].dropped = 0

\* worker process w has been started (line 199)
Started(w) == w \in Workers /\ wpc[w] # "idle"

\* worker w is inside _run
Evaluating(w) == w \in Workers /\ wpc[w] = "run"

====
